---------------------------- MODULE Spec2Model ----------------------------
(***************************************************************************)
(* A model of roadlocalize/localize.py: the TranslationStore, the          *)
(* Translator (fallback chain, plural selection, interpolation), the       *)
(* Formatter, the LocaleManager (thread-local current locale, formatter    *)
(* cache) and the I18n facade.                                             *)
(*                                                                         *)
(* Text that the program processes (templates, keys, formatted numbers) is *)
(* a sequence of one-character strings; locale codes are opaque strings.   *)
(* An optional argument is a record [some, v]: some = FALSE is Python's    *)
(* None.                                                                   *)
(***************************************************************************)
EXTENDS Integers, Sequences, FiniteSets, TLC

VARIABLES
    translations,    \* TranslationStore.translations: locale -> key -> Translation
    locales,         \* TranslationStore.locales: code -> Locale
    default_locale,  \* Translator.default_locale
    fallback_chain,  \* Translator.fallback_chain: code -> sequence of codes
    current,         \* LocaleManager._current_locale: thread -> code or Unset
    formatters,      \* LocaleManager._formatters: code -> Formatter
    ret,             \* the last call made and what it returned
    pc,              \* thread -> position inside add_locale / add_translation
    arg,             \* thread -> the argument of the call the thread is in
    lock,            \* TranslationStore._lock: the holders of the lock
    hist             \* the log of the calls made, in order

vars == <<translations, locales, default_locale, fallback_chain, current,
          formatters, ret, pc, arg, lock, hist>>

storeVars == <<translations, locales>>
translatorVars == <<default_locale, fallback_chain>>
managerVars == <<current, formatters>>
threadVars == <<pc, arg, lock>>

-----------------------------------------------------------------------------
(* Bounds of the model.                                                    *)

\* the longest template, in chunks, that the interpolation check draws
MaxChunks == 3
\* the number of calls that fill the store before translate is called
MaxTranslateOps == 3
\* the number of calls that fill the store before a plural is resolved
MaxPluralOps == 2
\* the number of calls made on the store before it is read
MaxStoreOps == 3
\* the largest number of items, nested ones included, of a loaded document
MaxItems == 3
\* the number of calls the threads of the concurrent check make in all
MaxCalls == 3
\* the number of set_locale and get_locale calls the threads make in all
MaxLocaleOps == 4
\* the number of calls made on the locale manager and the store around the
\* formatter cache
MaxCacheOps == 3
\* the number of set_locale calls made before a value is formatted
MaxFormatOps == 2

-----------------------------------------------------------------------------
(* Text helpers.                                                           *)

None == [some |-> FALSE, v |-> <<>>]
Some(x) == [some |-> TRUE, v |-> x]

\* s1 + s2 + ... for a sequence of texts
RECURSIVE Cat(_)
Cat(ss) == IF ss = <<>> THEN <<>> ELSE Head(ss) \o Cat(Tail(ss))

Digit(d) == CASE d = 0 -> "0" [] d = 1 -> "1" [] d = 2 -> "2" [] d = 3 -> "3"
              [] d = 4 -> "4" [] d = 5 -> "5" [] d = 6 -> "6" [] d = 7 -> "7"
              [] d = 8 -> "8" [] d = 9 -> "9"

\* the decimal digits of n >= 0
RECURSIVE Digits(_)
Digits(n) == IF n < 10 THEN <<Digit(n)>> ELSE Digits(n \div 10) \o <<Digit(n % 10)>>

\* str(n) for a Python int
IntStr(n) == IF n < 0 THEN <<"-">> \o Digits(-n) ELSE Digits(n)

\* Values a caller passes as parameters or a JSON document holds as leaves.
StrVal(s) == [t |-> "str", n |-> 0, s |-> s, items |-> <<>>]
IntVal(n) == [t |-> "int", n |-> n, s |-> <<>>, items |-> <<>>]
MapVal(items) == [t |-> "map", n |-> 0, s |-> <<>>, items |-> items]

\* str(value) for a scalar
PyStr(v) == CASE v.t = "str" -> v.s
              [] v.t = "int" -> IntStr(v.n)

-----------------------------------------------------------------------------
(* Translator._interpolate: re.sub(r'\{\{(\w+)\}\}', replace, text).       *)

\* the characters \w matches, among those the model's texts use
WordChars == {"a", "b", "c", "o", "u", "n", "t", "x", "i", "e", "m", "s",
              "0", "1", "2", "3", "4", "5", "6", "7", "8", "9", "_"}

\* the greedy \w+ : the length of the longest run of word characters at i
RECURSIVE WordRun(_, _)
WordRun(text, i) ==
    IF i <= Len(text) /\ text[i] \in WordChars THEN 1 + WordRun(text, i + 1) ELSE 0

\* the length of the pattern's match starting at position i, 0 when none
MatchAt(text, i) ==
    IF i + 1 <= Len(text) /\ text[i] = "{" /\ text[i + 1] = "{"
    THEN LET w == WordRun(text, i + 2)
         IN  IF /\ w >= 1
                /\ i + 3 + w <= Len(text)
                /\ text[i + 2 + w] = "}"
                /\ text[i + 3 + w] = "}"
             THEN w + 4 ELSE 0
    ELSE 0

\* replace(match): str(params.get(key, match.group(0)))
Replace(text, i, n, params) ==
    LET key == SubSeq(text, i + 2, i + n - 3)
    IN  IF key \in DOMAIN params THEN PyStr(params[key]) ELSE SubSeq(text, i, i + n - 1)

\* the scan of re.sub from position i: leftmost match, then on from its end
RECURSIVE SubFrom(_, _, _)
SubFrom(text, i, params) ==
    IF i > Len(text) THEN <<>>
    ELSE LET n == MatchAt(text, i)
         IN  IF n > 0 THEN Replace(text, i, n, params) \o SubFrom(text, i + n, params)
             ELSE <<text[i]>> \o SubFrom(text, i + 1, params)

\* a second substitution pass over the result of the first
InterpolateTwice(text, params) == SubFrom(SubFrom(text, 1, params), 1, params)

_interpolate(text, params) == SubFrom(text, 1, params)

-----------------------------------------------------------------------------
(* Locale and Translation records, and the TranslationStore.               *)

\* A non-ASCII character of the source is written as its code point.
NEN == "U+5E74"
GATSU == "U+6708"
NICHI == "U+65E5"

ISO_DATE == <<"Y", "Y", "Y", "Y", "-", "M", "M", "-", "D", "D">>
SLASH_DATE == <<"D", "D", "/", "M", "M", "/", "Y", "Y", "Y", "Y">>
DOT_DATE == <<"D", "D", ".", "M", "M", ".", "Y", "Y", "Y", "Y">>
KANJI_DATE == <<"Y", "Y", "Y", "Y", NEN, "M", "M", GATSU, "D", "D", NICHI>>

\* the dataclass Locale, with its defaults; `name` tells two records of one
\* code apart
Locale(code, name, date_format, number_decimal, number_thousand, currency_symbol, currency_position, plural_rule) ==
    [code |-> code, name |-> name, date_format |-> date_format,
     number_decimal |-> number_decimal, number_thousand |-> number_thousand,
     currency_symbol |-> currency_symbol, currency_position |-> currency_position,
     plural_rule |-> plural_rule]

\* Locale.plural_rule = None
NoRule == "None"

EN_US == Locale("en-US", "English (US)", ISO_DATE, <<".">>, <<",">>, <<"$">>, "before", NoRule)
EN_GB == Locale("en-GB", "English (UK)", SLASH_DATE, <<".">>, <<",">>, <<"U+00A3">>, "before", NoRule)
ES_ES == Locale("es-ES", "Spanish", ISO_DATE, <<",">>, <<".">>, <<"U+20AC">>, "after", NoRule)
FR_FR == Locale("fr-FR", "French", SLASH_DATE, <<",">>, <<" ">>, <<"U+20AC">>, "after", NoRule)
DE_DE == Locale("de-DE", "German", DOT_DATE, <<",">>, <<".">>, <<"U+20AC">>, "after", NoRule)
JA_JP == Locale("ja-JP", "Japanese", KANJI_DATE, <<".">>, <<",">>, <<"U+00A5">>, "before", NoRule)
AR_SA == Locale("ar-SA", "Arabic", ISO_DATE, <<".">>, <<",">>, <<"U+FDFC">>, "before", NoRule)

\* TranslationStore._setup_default_locales
DefaultLocales == {EN_US, EN_GB, ES_ES, FR_FR, DE_DE, JA_JP, AR_SA}

\* the dataclass Translation; plural_forms is a dict, kept as the sequence of
\* its items [k, v] in insertion order
Translation(key, locale, value, plural_forms) ==
    [key |-> key, locale |-> locale, value |-> value, plural_forms |-> plural_forms]

Item(k, v) == [k |-> k, v |-> v]

\* k in d
HasKey(items, k) == \E i \in 1..Len(items) : items[i].k = k

\* d.get(k, dflt)
DictGet(items, k, dflt) ==
    IF HasKey(items, k)
    THEN items[CHOOSE i \in 1..Len(items) : items[i].k = k].v
    ELSE dflt

\* the empty dict
EmptyMap == <<>>

\* d[k] = v on a dict kept as a function
Put(d, k, v) == [x \in (DOMAIN d) \cup {k} |-> IF x = k THEN v ELSE d[x]]

\* add_locale's body, on the pair of maps: the unconditional reset of the key map
AddLocaleReset(st, locale) ==
    [locales |-> Put(st.locales, locale.code, locale),
     translations |-> Put(st.translations, locale.code, EmptyMap)]

\* TranslationStore.add_locale (the body under the lock)
add_locale(st, locale) ==
    [locales |-> Put(st.locales, locale.code, locale),
     translations |-> IF locale.code \notin DOMAIN st.translations
                      THEN Put(st.translations, locale.code, EmptyMap)
                      ELSE st.translations]

\* TranslationStore.add_translation (the body under the lock), on the
\* translations map
add_translation(trs, translation) ==
    LET withMap == IF translation.locale \notin DOMAIN trs
                   THEN Put(trs, translation.locale, EmptyMap)
                   ELSE trs
    IN  Put(withMap, translation.locale,
            Put(withMap[translation.locale], translation.key, translation))

\* the Optional[Translation] that is None

\* TranslationStore.get_translation
get_translation(trs, locale, key) ==
    LET locale_translations == IF locale \in DOMAIN trs THEN trs[locale] ELSE EmptyMap
    IN  IF key \in DOMAIN locale_translations
        THEN Some(locale_translations[key])
        ELSE None

\* TranslationStore.get_locale: the Optional[Locale]
get_locale(locs, code) ==
    IF code \in DOMAIN locs THEN Some(locs[code]) ELSE [some |-> FALSE, v |-> <<>>]

K_ONE == <<"o", "n", "e">>
K_OTHER == <<"o", "t", "h", "e", "r">>
K_ZERO == <<"z", "e", "r", "o">>
K_FEW == <<"f", "e", "w">>

\* the dotted key built without the separator
FullKeyNoDot(prefix, key) == prefix \o key

\* full_key = f"{prefix}.{key}" if prefix else key
FullKey(prefix, key) == IF prefix # <<>> THEN prefix \o <<".">> \o key ELSE key

\* TranslationStore.load_json over data.items() from the i-th item on: the
\* translations map afterwards, the count returned, and the Translations
\* handed to add_translation, in call order
RECURSIVE LoadItems(_, _, _, _, _)
LoadItems(trs, locale, items, i, prefix) ==
    IF i > Len(items) THEN [trs |-> trs, count |-> 0, adds |-> <<>>]
    ELSE LET key == items[i].k
             value == items[i].v
             full_key == FullKey(prefix, key)
             plural == Translation(full_key, locale,
                           DictGet(value.items, K_OTHER, StrVal(<<>>)), value.items)
             step ==
                 IF value.t = "map"
                 THEN IF HasKey(value.items, K_ONE) \/ HasKey(value.items, K_OTHER)
                      THEN [trs |-> add_translation(trs, plural), count |-> 1,
                            adds |-> <<plural>>]
                      ELSE LoadItems(trs, locale, value.items, 1, full_key)
                 ELSE LET trans == Translation(full_key, locale, StrVal(PyStr(value)), <<>>)
                      IN  [trs |-> add_translation(trs, trans), count |-> 1,
                           adds |-> <<trans>>]
             rest == LoadItems(step.trs, locale, items, i + 1, prefix)
         IN  [trs |-> rest.trs, count |-> step.count + rest.count,
              adds |-> step.adds \o rest.adds]

load_json(trs, locale, data) == LoadItems(trs, locale, data, 1, <<>>)

-----------------------------------------------------------------------------
(* The Translator.                                                         *)

\* what a call gives back: a value, or the exception it raises
Ok(x) == [ok |-> TRUE, val |-> x, err |-> "none"]
Raise(e) == [ok |-> FALSE, val |-> <<>>, err |-> e]

\* plural rules a caller may configure on a Locale (Callable[[int], PluralForm])
RuleOneOther == "one_other"
RuleFew == "few"

\* locale_obj.plural_rule(count)
ApplyRule(rule, count) ==
    CASE rule = RuleOneOther -> IF count = 1 THEN K_ONE ELSE K_OTHER
      [] rule = RuleFew -> IF count = 1 THEN K_ONE
                           ELSE IF count >= 2 /\ count <= 4 THEN K_FEW ELSE K_OTHER

\* the English-like default rule of _get_plural_form
DefaultPluralRule(count) ==
    IF count = 0 THEN K_ZERO ELSE IF count = 1 THEN K_ONE ELSE K_OTHER

\* _get_plural_form ignoring the locale's own rule
PluralFormDefaultOnly(locs, locale, count) == DefaultPluralRule(count)

\* Translator._get_plural_form
_get_plural_form(locs, locale, count) ==
    LET locale_obj == get_locale(locs, locale)
    IN  IF locale_obj.some /\ locale_obj.v.plural_rule # NoRule
        THEN ApplyRule(locale_obj.v.plural_rule, count)
        ELSE DefaultPluralRule(count)

\* translation.plural_forms.get(plural_form.value,
\*     translation.plural_forms.get("other", translation.value))
PluralText(translation, plural_form) ==
    DictGet(translation.plural_forms, plural_form,
            DictGet(translation.plural_forms, K_OTHER, translation.value))

COUNT == <<"c", "o", "u", "n", "t">>

\* the body of translate's `if translation:` branch, for the hit at try_locale;
\* re.sub raises TypeError on a text that is no str
Render(locs, translation, try_locale, params, count) ==
    LET plural == count.some /\ translation.plural_forms # <<>>
        text == IF plural
                THEN PluralText(translation, _get_plural_form(locs, try_locale, count.v))
                ELSE translation.value
        params2 == IF plural THEN Put(params, COUNT, IntVal(count.v)) ELSE params
    IN  IF text.t = "str" THEN Ok(_interpolate(text.s, params2)) ELSE Raise("TypeError")

\* fallback_chain.get(locale, [])
ChainGet(chain, locale) == IF locale \in DOMAIN chain THEN chain[locale] ELSE <<>>

\* the default locale tried first
LocalesToTryDefaultFirst(chain, dflt, locale) ==
    <<dflt, locale>> \o ChainGet(chain, locale)

\* locales_to_try = [locale] + self.fallback_chain.get(locale, []) + [self.default_locale]
LocalesToTry(chain, dflt, locale) ==
    <<locale>> \o ChainGet(chain, locale) \o <<dflt>>

\* the `for try_locale in locales_to_try` loop from the i-th candidate on, and
\* the final `return default if default is not None else key`
RECURSIVE TryFrom(_, _, _, _, _, _, _, _)
TryFrom(trs, locs, tries, i, key, params, count, default) ==
    IF i > Len(tries)
    THEN Ok(IF default.some THEN default.v ELSE key)
    ELSE LET translation == get_translation(trs, tries[i], key)
         IN  IF translation.some
             THEN Render(locs, translation.v, tries[i], params, count)
             ELSE TryFrom(trs, locs, tries, i + 1, key, params, count, default)

\* `x or y` on an optional str: None and '' are falsy
OrElse(opt, dflt) == IF opt.some /\ opt.v # "" THEN opt.v ELSE dflt

\* Translator.translate, st the store, tr the translator's configuration
translate(st, tr, key, locale, params, count, default) ==
    LET locale2 == OrElse(locale, tr.default_locale)
        params2 == IF params.some THEN params.v ELSE EmptyMap
        locales_to_try == LocalesToTry(tr.fallback_chain, tr.default_locale, locale2)
    IN  TryFrom(st.translations, st.locales, locales_to_try, 1, key, params2, count, default)

-----------------------------------------------------------------------------
(* The Formatter. A number is an int (IntVal) or a float kept in           *)
(* hundredths (FloatVal(h) is h / 100); a date is year, month and day.     *)

FloatVal(h) == [t |-> "float", n |-> h, s |-> <<>>, items |-> <<>>]
DateVal(y, m, d) == [t |-> "date", n |-> y * 10000 + m * 100 + d, s |-> <<>>, items |-> <<>>]

IsNumeric(v) == v.t \in {"int", "float"}
IsDate(v) == v.t = "date"

\* f"{n:02d}" for 0 <= n
Pad2(n) == IF n < 10 THEN <<"0">> \o Digits(n) ELSE Digits(n)

\* three digits, zero-padded
Pad3(n) == IF n < 10 THEN <<"0", "0">> \o Digits(n)
           ELSE IF n < 100 THEN <<"0">> \o Digits(n) ELSE Digits(n)

\* the ',' grouping of format(): the digits of n >= 0 in groups of three
RECURSIVE Grouped(_)
Grouped(n) ==
    IF n < 1000 THEN Digits(n) ELSE Grouped(n \div 1000) \o <<",">> \o Pad3(n % 1000)

\* f"{value:,}" for an int
FormatInt(n) == IF n < 0 THEN <<"-">> \o Grouped(-n) ELSE Grouped(n)

\* f"{value:,.{decimals}f}" for the float h / 100, for decimals = 2, and for
\* decimals = 1 when h is a multiple of 10 (no rounding takes place)
FormatFloat(h, decimals) ==
    LET a == IF h < 0 THEN -h ELSE h
    IN  (IF h < 0 THEN <<"-">> ELSE <<>>) \o Grouped(a \div 100) \o <<".">> \o
            (IF decimals = 2 THEN Pad2(a % 100) ELSE <<Digit((a \div 10) % 10)>>)

\* text[i..] starts with pat
StartsAt(text, i, pat) ==
    /\ i + Len(pat) - 1 <= Len(text)
    /\ SubSeq(text, i, i + Len(pat) - 1) = pat

\* str.replace(pat, rep) from position i on: leftmost occurrences, not overlapping
RECURSIVE ReplaceFrom(_, _, _, _)
ReplaceFrom(text, i, pat, rep) ==
    IF i > Len(text) THEN <<>>
    ELSE IF StartsAt(text, i, pat) THEN rep \o ReplaceFrom(text, i + Len(pat), pat, rep)
    ELSE <<text[i]>> \o ReplaceFrom(text, i + 1, pat, rep)

StrReplace(text, pat, rep) == ReplaceFrom(text, 1, pat, rep)

THOUSAND == <<"T", "H", "O", "U", "S", "A", "N", "D">>

\* Formatter(locale): locale is the Optional[Locale] it was built with
Formatter(id, locale) == [id |-> id, locale |-> locale]

\* f"{value:,.{decimals}f}" for a date: date.__format__ is strftime, and the
\* format spec holds no directive, so the spec itself comes back
FormatSpec(decimals) == <<",", ".", Digit(decimals), "f">>

\* Formatter.number; a str value has no ',' and no 'f' format: ValueError
number(f, value, decimals) ==
    IF ~(IsNumeric(value) \/ IsDate(value)) THEN Raise("ValueError")
    ELSE IF ~f.locale.some THEN Raise("AttributeError")
    ELSE LET plain == IF value.t = "float" THEN FormatFloat(value.n, decimals)
                      ELSE FormatSpec(decimals)
             formatted ==
                 IF value.t = "int"
                 THEN StrReplace(FormatInt(value.n), <<",">>, THOUSAND)
                 ELSE StrReplace(StrReplace(plain, <<",">>, THOUSAND),
                                 <<".">>, f.locale.v.number_decimal)
         IN  Ok(StrReplace(formatted, THOUSAND, f.locale.v.number_thousand))

\* Formatter.currency with symbol=None
currency(f, value) ==
    IF ~f.locale.some THEN Raise("AttributeError")
    ELSE LET sym == f.locale.v.currency_symbol
             num == number(f, value, 2)
         IN  IF ~num.ok THEN num
             ELSE IF f.locale.v.currency_position = "before" THEN Ok(sym \o num.val)
             ELSE Ok(num.val \o <<" ">> \o sym)

\* the last two characters of a text: s[-2:]
LastTwo(text) == IF Len(text) <= 2 THEN text ELSE SubSeq(text, Len(text) - 1, Len(text))

\* Formatter.date with format_str=None: the replacements, in the dict's order
date(f, value) ==
    IF ~f.locale.some \/ ~IsDate(value) THEN Raise("AttributeError")
    ELSE LET fmt == f.locale.v.date_format
             year == value.n \div 10000
             month == (value.n \div 100) % 100
             day == value.n % 100
             r1 == StrReplace(fmt, <<"Y", "Y", "Y", "Y">>, Digits(year))
             r2 == StrReplace(r1, <<"Y", "Y">>, LastTwo(Digits(year)))
             r3 == StrReplace(r2, <<"M", "M">>, Pad2(month))
             r4 == StrReplace(r3, <<"D", "D">>, Pad2(day))
             r5 == StrReplace(r4, <<NEN>>, <<NEN>>)
             r6 == StrReplace(r5, <<GATSU>>, <<GATSU>>)
             r7 == StrReplace(r6, <<NICHI>>, <<NICHI>>)
         IN  Ok(r7)

\* value * 100 for a number; a str repeated is a str still
Times100(value) == [value EXCEPT !.n = @ * 100]

\* Formatter.percentage with decimals=1
percentage(f, value) ==
    IF IsDate(value) THEN Raise("TypeError")
    ELSE LET num == number(f, Times100(value), 1)
         IN  IF num.ok THEN Ok(num.val \o <<"%">>) ELSE num

-----------------------------------------------------------------------------
(* The LocaleManager and the I18n facade.                                  *)

\* LocaleManager.current (getter), in thread t:
\* getattr(self._current_locale, 'value', self.translator.default_locale)
CurrentGet(cur, t, dflt) == IF cur[t].some THEN cur[t].v ELSE dflt

\* one slot shared by every thread
CurrentSetShared(cur, t, locale) == [u \in DOMAIN cur |-> Some(locale)]

\* LocaleManager.current (setter), in thread t: self._current_locale.value = locale
CurrentSet(cur, t, locale) == [cur EXCEPT ![t] = Some(locale)]

\* the keyword arguments of a call: some = FALSE is a keyword not passed
Kwargs(locale, params, count, default) ==
    [locale |-> locale, params |-> params, count |-> count, default |-> default]

\* LocaleManager.t: self.translator.translate(key, locale=self.current, **kwargs);
\* a locale among the kwargs is a second value for the keyword: TypeError
manager_t(st, tr, cur, t, key, kwargs) ==
    IF kwargs.locale.some THEN Raise("TypeError")
    ELSE translate(st, tr, key, Some(CurrentGet(cur, t, tr.default_locale)),
                   kwargs.params, kwargs.count, kwargs.default)

\* I18n.t: self.locale_manager.t(key, **kwargs)
i18n_t(st, tr, cur, t, key, kwargs) == manager_t(st, tr, cur, t, key, kwargs)

\* LocaleManager.get_formatter in thread t: the cache afterwards and the
\* Formatter returned; the id of a new Formatter tells the instances apart
get_formatter(fmts, locs, cur, t, dflt, locale) ==
    LET locale2 == OrElse(locale, CurrentGet(cur, t, dflt))
        locale_obj == get_locale(locs, locale2)
        made == IF locale_obj.some
                THEN Formatter(Cardinality(DOMAIN fmts) + 1, locale_obj)
                ELSE Formatter(Cardinality(DOMAIN fmts) + 1, get_locale(locs, dflt))
        fmts2 == IF locale2 \notin DOMAIN fmts THEN Put(fmts, locale2, made) ELSE fmts
    IN  [fmts |-> fmts2, code |-> locale2, out |-> fmts2[locale2]]

\* I18n.format in thread t: the cache afterwards and what is returned
i18n_format(fmts, locs, cur, t, dflt, value, format_type) ==
    LET got == get_formatter(fmts, locs, cur, t, dflt, None)
        formatter == got.out
        out == IF format_type = "number" \/ IsNumeric(value) THEN number(formatter, value, 2)
               ELSE IF format_type = "currency" THEN currency(formatter, value)
               ELSE IF format_type = "date" \/ IsDate(value) THEN date(formatter, value)
               ELSE IF format_type = "percentage" THEN percentage(formatter, value)
               ELSE Ok(PyStr(value))
    IN  [fmts |-> got.fmts, out |-> out]

-----------------------------------------------------------------------------
(* The state after I18n(default_locale) is constructed.                    *)

\* the threads that call into one I18n instance
Threads == {"t1", "t2"}

\* no call made yet
NoCall == [op |-> "none"]

\* Translator.__init__: the built-in fallback table
BuiltinChain ==
    [c \in {"en-GB", "es-MX", "fr-CA", "pt-BR", "zh-TW"} |->
        CASE c = "en-GB" -> <<"en-US">>
          [] c = "es-MX" -> <<"es-ES">>
          [] c = "fr-CA" -> <<"fr-FR">>
          [] c = "pt-BR" -> <<"pt-PT">>
          [] c = "zh-TW" -> <<"zh-CN">>]

\* TranslationStore.__init__: the maps after _setup_default_locales
RECURSIVE AddAll(_, _)
AddAll(st, ls) ==
    IF ls = {} THEN st
    ELSE LET l == CHOOSE x \in ls : TRUE IN AddAll(add_locale(st, l), ls \ {l})

NewStore == AddAll([locales |-> <<>>, translations |-> <<>>], DefaultLocales)

\* I18n.__init__, then fallback_chain set to chain; c is the record of the
\* last call
ConstructedFull(dflt, chain, c) ==
    /\ translations = NewStore.translations
    /\ locales = NewStore.locales
    /\ default_locale = dflt
    /\ fallback_chain = chain
    /\ current = [t \in Threads |-> None]
    /\ formatters = <<>>
    /\ ret = c
    /\ pc = [t \in Threads |-> "idle"]
    /\ arg = [t \in Threads |-> NoCall]
    /\ lock = {}
    /\ hist = <<>>

\* I18n.__init__
Constructed(dflt) == ConstructedFull(dflt, BuiltinChain, NoCall)

\* I18n(): the default locale is "en-US"
Init == Constructed("en-US")

\* the store and the translator as the operators take them
Store == [locales |-> locales, translations |-> translations]
Tr == [default_locale |-> default_locale, fallback_chain |-> fallback_chain]

-----------------------------------------------------------------------------
(* Interpolation on its own: templates and parameter dicts drawn from      *)
(* bounded sets.                                                           *)

NAME_A == <<"a">>
NAME_B == <<"b">>
PH_A == <<"{", "{", "a", "}", "}">>
PH_B == <<"{", "{", "b", "}", "}">>
PH_C == <<"{", "{", "c", "}", "}">>

Chunks == {PH_A, PH_B, PH_C, <<"{">>, <<"}">>, <<"a">>}

\* the templates of at most n chunks
RECURSIVE ChunkTexts(_)
ChunkTexts(n) ==
    IF n = 0 THEN {<<>>}
    ELSE LET shorter == ChunkTexts(n - 1)
         IN  shorter \cup {c \o t : c \in Chunks, t \in shorter}

Templates == ChunkTexts(MaxChunks)

ParamValues == {StrVal(<<"x">>), StrVal(PH_B), StrVal(<<"{", "{">>), IntVal(7)}

\* the dicts over the names a and b
ParamDicts ==
    UNION {[names -> ParamValues] : names \in SUBSET {NAME_A, NAME_B}}

\* a call of _interpolate about to be made, with its arguments
InterpCalls ==
    {[op |-> "call", text |-> text, params |-> params] :
        text \in Templates, params \in ParamDicts}

InitInterp == \E c \in InterpCalls : ConstructedFull("en-US", BuiltinChain, c)

Interpolate ==
    /\ ret.op = "call"
    /\ ret' = [op |-> "_interpolate", text |-> ret.text, params |-> ret.params,
               out |-> _interpolate(ret.text, ret.params)]
    /\ UNCHANGED <<storeVars, translatorVars, managerVars, threadVars, hist>>

NextInterp == Interpolate

SpecInterp == InitInterp /\ [][NextInterp]_vars

\* text[i..j] is a placeholder {{name}}
IsPlaceholder(text, i, j) ==
    /\ j - i >= 4
    /\ text[i] = "{" /\ text[i + 1] = "{"
    /\ text[j - 1] = "}" /\ text[j] = "}"
    /\ \A k \in (i + 2)..(j - 2) : text[k] \in WordChars

\* the placeholders of a text, as spans
Spans(text) ==
    LET opens == {i \in 1..Len(text) : text[i] = "{"}
        closes == {j \in 1..Len(text) : text[j] = "}"}
    IN  {sp \in opens \X closes : IsPlaceholder(text, sp[1], sp[2])}

\* what the k-th character of the template contributes to the result, spans
\* being the placeholders of the template
Piece(text, spans, params, k) ==
    IF \E sp \in spans : sp[1] = k
    THEN LET sp == CHOOSE x \in spans : x[1] = k
             name == SubSeq(text, sp[1] + 2, sp[2] - 2)
         IN  IF name \in DOMAIN params THEN PyStr(params[name])
             ELSE SubSeq(text, sp[1], sp[2])
    ELSE IF \E sp \in spans : sp[1] < k /\ k <= sp[2] THEN <<>>
         ELSE <<text[k]>>

SinglePass(text, params) ==
    LET spans == Spans(text)
    IN  Cat([k \in 1..Len(text) |-> Piece(text, spans, params, k)])

\* C9: interpolation is a single pass: every placeholder {{name}} with name
\* in params becomes str(params[name]), every other placeholder and every
\* other character stays as it is, and an inserted value is never scanned
\* again, even when it holds {{ or a whole placeholder.
C9_SinglePass ==
    ret.op = "_interpolate" => ret.out = SinglePass(ret.text, ret.params)

\* a value holding the placeholder of another parameter was inserted verbatim
C9_Witness ==
    /\ ret.op = "_interpolate"
    /\ ret.text = PH_A \o PH_C \o PH_B
    /\ NAME_A \in DOMAIN ret.params /\ NAME_B \in DOMAIN ret.params
    /\ ret.params[NAME_A] = StrVal(PH_B)
    /\ ret.params[NAME_B] = StrVal(<<"x">>)
    /\ ret.out = PH_B \o PH_C \o <<"x">>

-----------------------------------------------------------------------------
(* load_json on its own: the document drawn from the nested mappings of at *)
(* most MaxItems items, loaded into a store that may already hold an entry.*)

KEY_A == <<"a">>
KEY_A_A == <<"a", ".", "a">>
KEY_EMPTY == <<>>

\* the keys of the documents: the empty key, a plain key, a dotted key and
\* the two members that mark a plural bundle
JsonKeys == {KEY_EMPTY, KEY_A, KEY_A_A, K_ONE, K_OTHER}

\* the mappings (sequences of items with distinct keys) of exactly n items,
\* those of nested mappings counted
RECURSIVE JsonMaps(_)
JsonMaps(n) ==
    IF n = 0 THEN {<<>>}
    ELSE LET scalarFirst ==
                 {<<Item(k, v)>> \o rest :
                     k \in JsonKeys, v \in {StrVal(<<"x">>), IntVal(5)}, rest \in JsonMaps(n - 1)}
             mapFirst ==
                 UNION {{<<Item(k, MapVal(m))>> \o rest :
                            k \in JsonKeys, m \in JsonMaps(j), rest \in JsonMaps(n - 1 - j)} :
                        j \in 0..(n - 1)}
         IN  {d \in scalarFirst \cup mapFirst : ~HasKey(Tail(d), d[1].k)}

JsonDocs == UNION {JsonMaps(n) : n \in 0..MaxItems}

\* entries the store may hold before the load
Preloads ==
    {Translation(KEY_A, "en-US", StrVal(<<"o", "l", "d">>), <<>>),
     Translation(K_OTHER, "en-US", StrVal(<<"o", "l", "d">>), <<>>)}

InitLoad ==
    \E d \in JsonDocs :
        ConstructedFull("en-US", BuiltinChain, [op |-> "call", locale |-> "en-US", data |-> d])

\* add_translation before the load: hist keeps what was added
Preload ==
    /\ ret.op = "call" /\ hist = <<>>
    /\ \E tr \in Preloads :
          /\ translations' = add_translation(translations, tr)
          /\ hist' = <<tr>>
    /\ UNCHANGED <<locales, translatorVars, managerVars, threadVars, ret>>

LoadJson ==
    /\ ret.op = "call"
    /\ LET r == load_json(translations, ret.locale, ret.data)
       IN  /\ translations' = r.trs
           /\ ret' = [op |-> "load_json", locale |-> ret.locale, data |-> ret.data,
                      out |-> r.count]
    /\ UNCHANGED <<locales, translatorVars, managerVars, threadVars, hist>>

NextLoad == Preload \/ LoadJson

SpecLoad == InitLoad /\ [][NextLoad]_vars

\* a mapping with a "one" or "other" member
IsBundle(v) == v.t = "map" /\ (HasKey(v.items, K_ONE) \/ HasKey(v.items, K_OTHER))

\* the scalar leaves and plural bundles of a document in document order, each
\* with the path of keys that leads to it
RECURSIVE LeavesOf(_, _)
LeavesOf(items, path) ==
    IF items = <<>> THEN <<>>
    ELSE LET k == Head(items).k
             v == Head(items).v
             here == IF v.t = "map" /\ ~IsBundle(v)
                     THEN LeavesOf(v.items, Append(path, k))
                     ELSE <<[path |-> Append(path, k), v |-> v]>>
         IN  here \o LeavesOf(Tail(items), path)

\* '.'.join(path)
RECURSIVE JoinDots(_)
JoinDots(path) ==
    IF path = <<>> THEN <<>>
    ELSE IF Len(path) = 1 THEN path[1]
    ELSE path[1] \o <<".">> \o JoinDots(Tail(path))

\* the path without the empty keys it starts with
RECURSIVE DropLeadingEmpty(_)
DropLeadingEmpty(path) ==
    IF path # <<>> /\ Head(path) = <<>> THEN DropLeadingEmpty(Tail(path)) ELSE path

\* the Translation a leaf stands for, under the key given
LeafTranslation(locale, leaf, key) ==
    IF leaf.v.t = "map"
    THEN Translation(key, locale, DictGet(leaf.v.items, K_OTHER, StrVal(<<>>)), leaf.v.items)
    ELSE Translation(key, locale, StrVal(PyStr(leaf.v)), <<>>)

\* C10 as stated: after load_json the store holds, for each scalar leaf and
\* each plural bundle, one Translation under the path's keys joined with '.',
\* and the count returned is the number of leaves and bundles.
C10_AsStated ==
    ret.op = "load_json" =>
        LET leaves == LeavesOf(ret.data, <<>>)
        IN  /\ ret.out = Len(leaves)
            /\ \A i \in 1..Len(leaves) :
                  LET key == JoinDots(leaves[i].path)
                  IN  get_translation(translations, ret.locale, key)
                        = Some(LeafTranslation(ret.locale, leaves[i], key))

\* the key load_json gives a path: empty keys at the start of the path add
\* nothing, not even a separator
FlatKey(path) == JoinDots(DropLeadingEmpty(path))

\* C10 amended: each leaf or bundle is added under FlatKey(path); of the
\* leaves that flatten to one key the last in document order is the one the
\* store holds afterwards; the count is the number of leaves and bundles,
\* overwritten ones included; entries under other keys are left as they were.
C10_Flatten ==
    ret.op = "load_json" =>
        LET leaves == LeavesOf(ret.data, <<>>)
            keys == {FlatKey(leaves[i].path) : i \in 1..Len(leaves)}
            old == {hist[i] : i \in 1..Len(hist)}
        IN  /\ ret.out = Len(leaves)
            /\ \A i \in 1..Len(leaves) :
                  LET key == FlatKey(leaves[i].path)
                      last == CHOOSE j \in 1..Len(leaves) :
                                 /\ FlatKey(leaves[j].path) = key
                                 /\ \A m \in 1..Len(leaves) :
                                       FlatKey(leaves[m].path) = key => m <= j
                  IN  get_translation(translations, ret.locale, key)
                        = Some(LeafTranslation(ret.locale, leaves[last], key))
            /\ DOMAIN translations[ret.locale] = keys \cup {tr.key : tr \in old}
            /\ \A tr \in old :
                  tr.key \notin keys =>
                      get_translation(translations, ret.locale, tr.key) = Some(tr)

\* {"a.a": "x", "a": {"a": 5}} was loaded: two leaves counted, both flatten to
\* "a.a", and the later one, stringified, is what the key holds
C10_Witness ==
    /\ ret.op = "load_json"
    /\ ret.data = <<Item(KEY_A_A, StrVal(<<"x">>)),
                    Item(KEY_A, MapVal(<<Item(KEY_A, IntVal(5))>>))>>
    /\ ret.out = 2
    /\ get_translation(translations, ret.locale, KEY_A_A)
         = Some(Translation(KEY_A_A, ret.locale, StrVal(<<"5">>), <<>>))

-----------------------------------------------------------------------------
(* The store under any sequence of add_translation, add_locale and         *)
(* load_json calls; hist is the log of the calls, in order.                *)

\* a locale no add_locale has registered when the store is constructed
XX == "xx-XX"

\* Locale records a caller registers: a new code, and a built-in code again
XX_XX == Locale(XX, "Testish", ISO_DATE, <<".">>, <<",">>, <<"$">>, "before", NoRule)
EN_US_FEW == Locale("en-US", "English (few)", ISO_DATE, <<".">>, <<",">>, <<"$">>, "before", RuleFew)

StoreLocales == {"en-US", XX}
StoreKeys == {KEY_A, KEY_A_A}

\* the same pair with a plain text, and with another text and plural forms
StoreTranslations ==
    {Translation(k, l, StrVal(<<"x">>), <<>>) : k \in StoreKeys, l \in StoreLocales}
    \cup {Translation(k, l, StrVal(<<"y">>), <<Item(K_OTHER, StrVal(<<"y">>))>>) :
             k \in StoreKeys, l \in StoreLocales}

StoreDocs ==
    {<<Item(KEY_A, MapVal(<<Item(KEY_A, IntVal(5))>>))>>,
     <<Item(KEY_A, MapVal(<<Item(K_ONE, StrVal(<<"x">>))>>))>>}

AddLocale(ls, max) ==
    /\ ret = NoCall /\ Len(hist) < max
    /\ \E l \in ls :
          LET st == add_locale(Store, l)
          IN  /\ locales' = st.locales
              /\ translations' = st.translations
              /\ hist' = Append(hist, [op |-> "add_locale", adds |-> <<>>])
    /\ UNCHANGED <<translatorVars, managerVars, threadVars, ret>>

AddTranslation(ts, max) ==
    /\ ret = NoCall /\ Len(hist) < max
    /\ \E tr \in ts :
          /\ translations' = add_translation(translations, tr)
          /\ hist' = Append(hist, [op |-> "add_translation", adds |-> <<tr>>])
    /\ UNCHANGED <<locales, translatorVars, managerVars, threadVars, ret>>

LoadJsonInto(ls, docs, max) ==
    /\ ret = NoCall /\ Len(hist) < max
    /\ \E l \in ls, d \in docs :
          LET r == load_json(translations, l, d)
          IN  /\ translations' = r.trs
              /\ hist' = Append(hist, [op |-> "load_json", adds |-> r.adds])
    /\ UNCHANGED <<locales, translatorVars, managerVars, threadVars, ret>>

GetTranslation(ls, ks) ==
    /\ ret = NoCall
    /\ \E l \in ls, k \in ks :
          ret' = [op |-> "get_translation", locale |-> l, key |-> k,
                  out |-> get_translation(translations, l, k)]
    /\ UNCHANGED <<storeVars, translatorVars, managerVars, threadVars, hist>>

NextStore ==
    \/ AddLocale({XX_XX, EN_US_FEW}, MaxStoreOps)
    \/ AddTranslation(StoreTranslations, MaxStoreOps)
    \/ LoadJsonInto({"en-US"}, StoreDocs, MaxStoreOps)
    \/ GetTranslation(StoreLocales, StoreKeys)

SpecStore == Init /\ [][NextStore]_vars

\* every Translation handed to add_translation so far, in call order
RECURSIVE AddsOf(_)
AddsOf(log) == IF log = <<>> THEN <<>> ELSE Head(log).adds \o AddsOf(Tail(log))

\* the Translation most recently added for (locale, key), if any
LastAdded(log, locale, key) ==
    LET adds == AddsOf(log)
        mine == {i \in 1..Len(adds) : adds[i].locale = locale /\ adds[i].key = key}
    IN  IF mine = {} THEN None
        ELSE Some(adds[CHOOSE i \in mine : \A j \in mine : j <= i])

\* C3: after any sequence of add_translation, add_locale and load_json calls,
\* get_translation(locale, key) is the Translation most recently added for
\* that exact pair, whole, and absent for a pair never added; add_locale
\* removes and changes nothing.
C3_LastWriteWins ==
    /\ \A l \in StoreLocales, k \in StoreKeys :
          get_translation(translations, l, k) = LastAdded(hist, l, k)
    /\ ret.op = "get_translation" => ret.out = LastAdded(hist, ret.locale, ret.key)

\* a pair added with plural forms, added again without, its locale registered
\* afterwards, and then read
C3_Witness ==
    /\ ret.op = "get_translation" /\ ret.locale = XX /\ ret.key = KEY_A
    /\ Len(hist) = 3
    /\ hist[1] = [op |-> "add_translation",
                  adds |-> <<Translation(KEY_A, XX, StrVal(<<"y">>),
                                         <<Item(K_OTHER, StrVal(<<"y">>))>>)>>]
    /\ hist[2] = [op |-> "add_translation",
                  adds |-> <<Translation(KEY_A, XX, StrVal(<<"x">>), <<>>)>>]
    /\ hist[3].op = "add_locale"
    /\ XX \in DOMAIN locales
    /\ ret.out = Some(Translation(KEY_A, XX, StrVal(<<"x">>), <<>>))

-----------------------------------------------------------------------------
(* Translator.translate over stores filled by add_translation, for each    *)
(* default locale and fallback table of a small set.                       *)

KEY_B == <<"b">>

\* the code as one character, to tell the texts of the locales apart
CodeChar(l) ==
    CASE l = "" -> "0" [] l = "en-GB" -> "1" [] l = "en-US" -> "2"
      [] l = "fr-FR" -> "3" [] l = XX -> "4"

\* one Translation of key a per locale, the empty code included
TranslateTranslations ==
    {Translation(KEY_A, l, StrVal(PH_A \o <<CodeChar(l)>>), <<>>) :
        l \in {"", "en-GB", "en-US", "fr-FR"}}

TranslateLocaleArgs ==
    {None, Some(""), Some("en-GB"), Some("en-US"), Some("fr-FR"), Some(XX)}

TranslateCalls ==
    {[key |-> k, locale |-> l, params |-> None, count |-> None, default |-> d] :
        k \in {KEY_A, KEY_B}, l \in TranslateLocaleArgs,
        d \in {None, Some(<<>>), Some(<<"d">>)}}

InitTranslate ==
    \E d \in {"en-US", "fr-FR"},
       ch \in {BuiltinChain, [c \in {"en-GB"} |-> <<"fr-FR", "en-US">>]} :
        ConstructedFull(d, ch, NoCall)

Translate(calls) ==
    /\ ret = NoCall
    /\ \E c \in calls :
          ret' = [op |-> "translate", key |-> c.key, locale |-> c.locale,
                  params |-> c.params, count |-> c.count, default |-> c.default,
                  out |-> translate(Store, Tr, c.key, c.locale, c.params, c.count,
                                    c.default)]
    /\ UNCHANGED <<storeVars, translatorVars, managerVars, threadVars, hist>>

NextTranslate ==
    \/ AddTranslation(TranslateTranslations, MaxTranslateOps)
    \/ Translate(TranslateCalls)

SpecTranslate == InitTranslate /\ [][NextTranslate]_vars

\* the candidates that have the key, as indices into the candidate list
Hits(cands, key) ==
    {i \in 1..Len(cands) : get_translation(translations, cands[i], key).some}

First(S) == CHOOSE i \in S : \A j \in S : i <= j

\* what translate has to return for the call in ret when the candidates are
\* resolved in the order [first] + fallback_chain[first] + [default_locale]
ResolvedFrom(first) ==
    LET cands == <<first>> \o ChainGet(fallback_chain, first) \o <<default_locale>>
        hits == Hits(cands, ret.key)
        params == IF ret.params.some THEN ret.params.v ELSE EmptyMap
    IN  IF hits = {}
        THEN ret.out = Ok(IF ret.default.some THEN ret.default.v ELSE ret.key)
        ELSE LET try_locale == cands[First(hits)]
             IN  ret.out = Render(locales,
                                  get_translation(translations, try_locale, ret.key).v,
                                  try_locale, params, ret.count)

\* C1 as stated: the candidates start with the requested locale, whatever it
\* is (the default locale when none is requested).
C1_AsStated ==
    ret.op = "translate" =>
        ResolvedFrom(IF ret.locale.some THEN ret.locale.v ELSE default_locale)

\* C1 amended: translate resolves the key against [L] + fallback_chain[L] +
\* [default_locale], L being the requested locale, or the default locale when
\* the requested locale is omitted or the empty string; the first candidate
\* that has the key gives the translation; with no hit the result is the
\* caller's default when one was supplied (the empty string included), else
\* the key.
C1_Resolution ==
    ret.op = "translate" =>
        ResolvedFrom(IF ret.locale.some /\ ret.locale.v # "" THEN ret.locale.v
                     ELSE default_locale)

\* en-GB was requested, the key is under en-US and under the default locale
\* fr-FR only, and the en-US text was used
C1_Witness ==
    /\ ret.op = "translate" /\ ret.key = KEY_A /\ ret.locale = Some("en-GB")
    /\ default_locale = "fr-FR" /\ fallback_chain = BuiltinChain
    /\ ~get_translation(translations, "en-GB", KEY_A).some
    /\ get_translation(translations, "en-US", KEY_A).some
    /\ get_translation(translations, "fr-FR", KEY_A).some
    /\ ret.out = Ok(PH_A \o <<"2">>)

-----------------------------------------------------------------------------
(* The facade: I18n.set_locale and I18n.t, called from threads.            *)

\* I18n.set_locale in one of the threads ts
SetLocale(ts, codes, max) ==
    /\ ret = NoCall /\ Len(hist) < max
    /\ \E t \in ts, l \in codes :
          /\ current' = CurrentSet(current, t, l)
          /\ hist' = Append(hist, [op |-> "set_locale", thread |-> t, locale |-> l,
                                   adds |-> <<>>])
    /\ UNCHANGED <<storeVars, translatorVars, formatters, threadVars, ret>>

FacadeCalls ==
    {[thread |-> t, key |-> k, kwargs |-> Kwargs(l, p, None, d)] :
        t \in Threads, k \in {KEY_A, KEY_B}, l \in {None, Some("en-GB")},
        p \in {None, Some([n \in {NAME_A} |-> StrVal(<<"x">>)])},
        d \in {None, Some(<<"d">>)}}

\* I18n.t in a thread
T(calls) ==
    /\ ret = NoCall
    /\ \E c \in calls :
          ret' = [op |-> "t", thread |-> c.thread, key |-> c.key, kwargs |-> c.kwargs,
                  out |-> i18n_t(Store, Tr, current, c.thread, c.key, c.kwargs)]
    /\ UNCHANGED <<storeVars, translatorVars, managerVars, threadVars, hist>>

NextFacade ==
    \/ AddTranslation(TranslateTranslations, MaxTranslateOps)
    \/ SetLocale({"t1"}, {"en-GB", "fr-FR"}, MaxTranslateOps)
    \/ T(FacadeCalls)

SpecFacade == Init /\ [][NextFacade]_vars

\* C2: I18n.t(key, locale?, params?, count?, default?) never fails: whatever
\* optional arguments are supplied, the call returns a string.
C2_NeverFails == ret.op = "t" => ret.out.ok

-----------------------------------------------------------------------------
(* Plural selection: translate with a count, over stores that hold plural  *)
(* bundles and locales that carry a plural rule or none.                   *)

PH_COUNT == <<"{", "{", "c", "o", "u", "n", "t", "}", "}">>

\* the text of a category: "{{count}} <category>"
CategoryText(cat) == StrVal(PH_COUNT \o <<" ">> \o cat)

PF_ONE_OTHER == <<Item(K_ONE, CategoryText(K_ONE)), Item(K_OTHER, CategoryText(K_OTHER))>>
PF_ONE == <<Item(K_ONE, CategoryText(K_ONE))>>
PF_ZERO_ONE_OTHER ==
    <<Item(K_ZERO, CategoryText(K_ZERO)), Item(K_ONE, CategoryText(K_ONE)),
      Item(K_OTHER, CategoryText(K_OTHER))>>
PF_FEW_OTHER == <<Item(K_FEW, CategoryText(K_FEW)), Item(K_OTHER, CategoryText(K_OTHER))>>

PluralFormsSets == {<<>>, PF_ONE_OTHER, PF_ONE, PF_ZERO_ONE_OTHER, PF_FEW_OTHER}

\* the plain text of the plural translations: "{{count}} v"
PLAIN == StrVal(PH_COUNT \o <<" ", "v">>)

PluralTranslations ==
    {Translation(KEY_A, l, PLAIN, pf) : l \in {"en-US", "en-GB", XX}, pf \in PluralFormsSets}

EN_GB_ONE_OTHER == Locale("en-GB", "English (one/other)", SLASH_DATE, <<".">>, <<",">>, <<"U+00A3">>, "before", RuleOneOther)

PluralCalls ==
    {[key |-> KEY_A, locale |-> l, params |-> p, count |-> c, default |-> None] :
        l \in {None, Some("en-GB"), Some(XX)},
        p \in {None, Some([n \in {COUNT} |-> StrVal(<<"x">>)])},
        c \in {None, Some(0), Some(1), Some(2), Some(5)}}

NextPlural ==
    \/ AddLocale({EN_US_FEW, EN_GB_ONE_OTHER}, MaxPluralOps)
    \/ AddTranslation(PluralTranslations, MaxPluralOps)
    \/ Translate(PluralCalls)

SpecPlural == Init /\ [][NextPlural]_vars

\* the locale is registered with a plural rule
HasRule(locale) ==
    locale \in DOMAIN locales /\ locales[locale].plural_rule # NoRule

\* the category of a count: by the rule of the locale when it is registered
\* with one, else 0 -> zero, 1 -> one, anything else -> other
Category(locale, n) ==
    IF HasRule(locale)
    THEN ApplyRule(locales[locale].plural_rule, n)
    ELSE CASE n = 0 -> K_ZERO [] n = 1 -> K_ONE [] OTHER -> K_OTHER

\* the value of key k in a dict kept as items
Lookup(items, k) == items[CHOOSE i \in 1..Len(items) : items[i].k = k].v

\* C7: when the hit translation has plural forms and a count is supplied,
\* the category is that of the rule of the locale where the key was found
\* (else the default rule), the text is plural_forms[category], else
\* plural_forms["other"], else value, and the count is substituted for
\* {{count}}; without a count or without plural forms the plain value is
\* used. With only `one` and `other` and the default rule, 1 selects `one`
\* and 0 and 5 select `other`.
C7_PluralSelection ==
    ret.op = "translate" =>
        LET first == IF ret.locale.some /\ ret.locale.v # "" THEN ret.locale.v
                     ELSE default_locale
            cands == <<first>> \o ChainGet(fallback_chain, first) \o <<default_locale>>
            hits == Hits(cands, ret.key)
            params == IF ret.params.some THEN ret.params.v ELSE EmptyMap
        IN  hits # {} =>
              LET hit == cands[First(hits)]
                  tr == translations[hit][ret.key]
                  pf == tr.plural_forms
              IN  IF ret.count.some /\ pf # <<>>
                  THEN LET n == ret.count.v
                           cat == Category(hit, n)
                           text == IF HasKey(pf, cat) THEN Lookup(pf, cat)
                                   ELSE IF HasKey(pf, K_OTHER) THEN Lookup(pf, K_OTHER)
                                   ELSE tr.value
                           withCount == [x \in (DOMAIN params) \cup {COUNT} |->
                                            IF x = COUNT THEN IntVal(n) ELSE params[x]]
                       IN  /\ ret.out = Ok(SinglePass(text.s, withCount))
                           /\ (pf = PF_ONE_OTHER /\ ~HasRule(hit)) =>
                                 ret.out = Ok(IntStr(n) \o <<" ">> \o
                                              (IF n = 1 THEN K_ONE ELSE K_OTHER))
                  ELSE ret.out = Ok(SinglePass(tr.value.s, params))

\* en-GB, registered with a rule that knows no `zero`, was requested with
\* count 0; the key was found under en-US, which has no rule, and the default
\* rule of the hit locale chose `zero`
C7_Witness ==
    /\ ret.op = "translate" /\ ret.locale = Some("en-GB") /\ ret.count = Some(0)
    /\ locales["en-GB"].plural_rule = RuleOneOther
    /\ KEY_A \notin DOMAIN translations["en-GB"]
    /\ KEY_A \in DOMAIN translations["en-US"]
    /\ translations["en-US"][KEY_A].plural_forms = PF_ZERO_ONE_OTHER
    /\ ret.out = Ok(<<"0", " ">> \o K_ZERO)

-----------------------------------------------------------------------------
(* The current locale under set_locale and get_locale calls of the         *)
(* threads, in any interleaving; hist is the log of the calls.             *)

\* I18n.get_locale in one of the threads ts; the log keeps what it returned
GetLocale(ts, max) ==
    /\ ret = NoCall /\ Len(hist) < max
    /\ \E t \in ts :
          hist' = Append(hist, [op |-> "get_locale", thread |-> t,
                                locale |-> CurrentGet(current, t, default_locale),
                                adds |-> <<>>])
    /\ UNCHANGED <<storeVars, translatorVars, managerVars, threadVars, ret>>

NextLocale ==
    \/ SetLocale(Threads, {"fr-FR", "de-DE", ""}, MaxLocaleOps)
    \/ GetLocale(Threads, MaxLocaleOps)

SpecLocale == Init /\ [][NextLocale]_vars

\* C4: get_locale in a thread returns the value of that thread's most recent
\* set_locale, or the default locale if the thread never called set_locale;
\* the set_locale calls of other threads change nothing in it.
C4_PerThreadLocale ==
    \A i \in 1..Len(hist) :
        hist[i].op = "get_locale" =>
            LET mine == {j \in 1..(i - 1) :
                            hist[j].op = "set_locale" /\ hist[j].thread = hist[i].thread}
            IN  hist[i].locale =
                    IF mine = {} THEN default_locale
                    ELSE hist[CHOOSE j \in mine : \A m \in mine : m <= j].locale

\* t1 set fr-FR, then t2 set de-DE, then t1 read fr-FR and t2 read de-DE
C4_Witness ==
    /\ Len(hist) = 4
    /\ hist[1] = [op |-> "set_locale", thread |-> "t1", locale |-> "fr-FR", adds |-> <<>>]
    /\ hist[2] = [op |-> "set_locale", thread |-> "t2", locale |-> "de-DE", adds |-> <<>>]
    /\ hist[3] = [op |-> "get_locale", thread |-> "t1", locale |-> "fr-FR", adds |-> <<>>]
    /\ hist[4] = [op |-> "get_locale", thread |-> "t2", locale |-> "de-DE", adds |-> <<>>]

-----------------------------------------------------------------------------
(* add_translation and add_locale called from threads at once: each call   *)
(* is the steps of its body, and the steps of the threads interleave.      *)
(* hist is the log of the calls and of their returns.                      *)

ConcCalls ==
    {[op |-> "add_translation", translation |-> Translation(KEY_A, XX, StrVal(<<"x">>), <<>>)],
     [op |-> "add_translation", translation |-> Translation(KEY_B, XX, StrVal(<<"y">>), <<>>)],
     [op |-> "add_translation", translation |-> Translation(KEY_A, XX, StrVal(<<"z">>), <<>>)],
     [op |-> "add_locale", locale |-> XX_XX]}

\* the locale code a call is about
CodeOf(c) == IF c.op = "add_locale" THEN c.locale.code ELSE c.translation.locale

\* the calls made so far
Started(log) == {i \in 1..Len(log) : log[i].ev = "call"}

\* no lock at all: every thread enters
LockAlwaysFree(l) == TRUE

\* threading.Lock: acquire waits until no thread holds the lock
LockFree(l) == l = {}

\* a thread calls add_translation or add_locale
Call(t) ==
    /\ pc[t] = "idle" /\ Cardinality(Started(hist)) < MaxCalls
    /\ \E c \in ConcCalls :
          /\ arg' = [arg EXCEPT ![t] = c]
          /\ hist' = Append(hist, [ev |-> "call", thread |-> t, call |-> c])
    /\ pc' = [pc EXCEPT ![t] = "acquire"]
    /\ UNCHANGED <<storeVars, translatorVars, managerVars, ret, lock>>

\* with self._lock: (entering)
Acquire(t) ==
    /\ pc[t] = "acquire" /\ LockFree(lock)
    /\ lock' = lock \cup {t}
    /\ pc' = [pc EXCEPT ![t] = IF arg[t].op = "add_locale" THEN "put_locale" ELSE "check"]
    /\ UNCHANGED <<storeVars, translatorVars, managerVars, ret, arg, hist>>

\* self.locales[locale.code] = locale
PutLocale(t) ==
    /\ pc[t] = "put_locale"
    /\ locales' = Put(locales, arg[t].locale.code, arg[t].locale)
    /\ pc' = [pc EXCEPT ![t] = "check"]
    /\ UNCHANGED <<translations, translatorVars, managerVars, ret, arg, lock, hist>>

\* if code not in self.translations:
Check(t) ==
    /\ pc[t] = "check"
    /\ pc' = [pc EXCEPT ![t] =
                 IF CodeOf(arg[t]) \notin DOMAIN translations THEN "create"
                 ELSE IF arg[t].op = "add_locale" THEN "release" ELSE "store"]
    /\ UNCHANGED <<storeVars, translatorVars, managerVars, ret, arg, lock, hist>>

\* self.translations[code] = {}
Create(t) ==
    /\ pc[t] = "create"
    /\ translations' = Put(translations, CodeOf(arg[t]), EmptyMap)
    /\ pc' = [pc EXCEPT ![t] = IF arg[t].op = "add_locale" THEN "release" ELSE "store"]
    /\ UNCHANGED <<locales, translatorVars, managerVars, ret, arg, lock, hist>>

\* self.translations[translation.locale][translation.key] = translation
StoreEntry(t) ==
    /\ pc[t] = "store"
    /\ LET tr == arg[t].translation
       IN  translations' = Put(translations, tr.locale,
                               Put(translations[tr.locale], tr.key, tr))
    /\ pc' = [pc EXCEPT ![t] = "release"]
    /\ UNCHANGED <<locales, translatorVars, managerVars, ret, arg, lock, hist>>

\* with self._lock: (leaving), and the return of the call
Release(t) ==
    /\ pc[t] = "release"
    /\ lock' = lock \ {t}
    /\ pc' = [pc EXCEPT ![t] = "idle"]
    /\ hist' = Append(hist, [ev |-> "return", thread |-> t, call |-> arg[t]])
    /\ UNCHANGED <<storeVars, translatorVars, managerVars, ret, arg>>

NextConc ==
    \E t \in Threads :
        \/ Call(t)
        \/ Acquire(t)
        \/ PutLocale(t)
        \/ Check(t)
        \/ Create(t)
        \/ StoreEntry(t)
        \/ Release(t)

SpecConc == Init /\ [][NextConc]_vars

\* the Translations the calls of the log handed in for the pair of tr
WrittenFor(log, tr) ==
    {log[j].call.translation :
        j \in {k \in Started(log) :
                  /\ log[k].call.op = "add_translation"
                  /\ log[k].call.translation.locale = tr.locale
                  /\ log[k].call.translation.key = tr.key}}

\* C5: once all calls have returned, every (locale, key) pair added by any
\* call is present and holds the Translation of one of the calls that wrote
\* that pair, and every locale added is registered and has a key map; no
\* interleaving loses an update.
C5_NoLostUpdate ==
    (\A t \in Threads : pc[t] = "idle") =>
        \A i \in Started(hist) :
            LET c == hist[i].call
            IN  IF c.op = "add_translation"
                THEN LET got == get_translation(translations, c.translation.locale,
                                                c.translation.key)
                     IN  got.some /\ got.v \in WrittenFor(hist, c.translation)
                ELSE /\ c.locale.code \in DOMAIN locales
                     /\ locales[c.locale.code] = c.locale
                     /\ c.locale.code \in DOMAIN translations

\* two threads were inside add_translation at once, each adding the first
\* translation of the unseen locale under its own key; both have returned and
\* both entries are there
C5_Witness ==
    /\ \A t \in Threads : pc[t] = "idle"
    /\ Len(hist) = 4
    /\ hist[1] = [ev |-> "call", thread |-> "t1",
                  call |-> [op |-> "add_translation",
                            translation |-> Translation(KEY_A, XX, StrVal(<<"x">>), <<>>)]]
    /\ hist[2] = [ev |-> "call", thread |-> "t2",
                  call |-> [op |-> "add_translation",
                            translation |-> Translation(KEY_B, XX, StrVal(<<"y">>), <<>>)]]
    /\ hist[3].ev = "return" /\ hist[4].ev = "return"
    /\ DOMAIN translations[XX] = {KEY_A, KEY_B}

-----------------------------------------------------------------------------
(* I18n.format in a thread whose current locale was set by set_locale.     *)

\* 0, 5, 1234 and -1234567; 0.50, 99.99, 1234.56 and -0.50; 2024-03-05 and
\* 1999-12-31; and a str
FormatCalls ==
    {[value |-> v, format_type |-> g] :
        v \in {IntVal(0), IntVal(5), IntVal(1234), IntVal(-1234567),
               FloatVal(50), FloatVal(9999), FloatVal(123456), FloatVal(-50),
               DateVal(2024, 3, 5), DateVal(1999, 12, 31),
               StrVal(<<"x">>)},
        g \in {"auto", "number", "currency", "date", "percentage"}}

\* I18n.format in thread t1
Format(calls) ==
    /\ ret = NoCall
    /\ \E c \in calls :
          LET r == i18n_format(formatters, locales, current, "t1", default_locale,
                               c.value, c.format_type)
          IN  /\ formatters' = r.fmts
              /\ ret' = [op |-> "format", thread |-> "t1", value |-> c.value,
                         format_type |-> c.format_type, out |-> r.out]
    /\ UNCHANGED <<storeVars, translatorVars, current, threadVars, hist>>

NextFormat ==
    \/ SetLocale({"t1"}, {"en-US", "en-GB", "de-DE", "fr-FR", "ja-JP", "ar-SA", XX}, MaxFormatOps)
    \/ Format(FormatCalls)

SpecFormat == Init /\ [][NextFormat]_vars

\* the types a tag is made for
Suitable(value, tag) ==
    CASE tag \in {"number", "currency", "percentage"} -> IsNumeric(value)
      [] tag = "date" -> IsDate(value)
      [] OTHER -> IsNumeric(value) \/ IsDate(value)

\* the formatter operation a tag names, and with "auto" the one the type of
\* the value names
TagOperation(f, value, tag) ==
    CASE tag = "number" -> number(f, value, 2)
      [] tag = "currency" -> currency(f, value)
      [] tag = "date" -> date(f, value)
      [] tag = "percentage" -> percentage(f, value)
      [] OTHER -> IF IsNumeric(value) THEN number(f, value, 2) ELSE date(f, value)

\* C6: for a value of a suitable type, format(value, T) returns the result of
\* the current locale's formatter operation T applied to value, and with tag
\* "auto" the operation named by the runtime type of value.
C6_Dispatch ==
    (ret.op = "format" /\ Suitable(ret.value, ret.format_type)) =>
        ret.out = TagOperation(formatters[CurrentGet(current, ret.thread, default_locale)],
                               ret.value, ret.format_type)

-----------------------------------------------------------------------------
(* The formatter cache under add_locale, set_locale and get_formatter, for *)
(* an I18n built with a registered or an unregistered default locale.      *)

\* LocaleManager.get_formatter in thread t1; the log keeps the code asked
\* for, the Formatter returned, and the Locale records the store held for
\* the code and for the default locale when the call was made
GetFormatter(args, max) ==
    /\ ret = NoCall /\ Len(hist) < max
    /\ \E a \in args :
          LET r == get_formatter(formatters, locales, current, "t1", default_locale, a)
          IN  /\ formatters' = r.fmts
              /\ hist' = Append(hist, [op |-> "get_formatter", code |-> r.code, out |-> r.out,
                                       registered |-> get_locale(locales, r.code),
                                       dflt |-> get_locale(locales, default_locale),
                                       adds |-> <<>>])
    /\ UNCHANGED <<storeVars, translatorVars, current, threadVars, ret>>

InitCache == \E d \in {"en-US", XX} : Constructed(d)

NextCache ==
    \/ AddLocale({XX_XX, EN_US_FEW}, MaxCacheOps)
    \/ SetLocale({"t1"}, {XX, "fr-FR"}, MaxCacheOps)
    \/ GetFormatter({None, Some("en-US"), Some(XX), Some("yy-YY")}, MaxCacheOps)

SpecCache == InitCache /\ [][NextCache]_vars

\* the first request of the log for the code of request i
FirstRequest(log, i) ==
    CHOOSE j \in 1..i :
        /\ log[j].op = "get_formatter" /\ log[j].code = log[i].code
        /\ \A m \in 1..(j - 1) : ~(log[m].op = "get_formatter" /\ log[m].code = log[i].code)

\* C8: after any sequence of add_locale, set_locale and get_formatter calls,
\* get_formatter(L) returns a Formatter bound to a Locale record: L's own
\* Locale when L was registered at the first request for L, the default
\* locale's Locale otherwise; every later get_formatter(L) returns that same
\* cached instance.
C8_UsableCached ==
    \A i \in 1..Len(hist) :
        hist[i].op = "get_formatter" =>
            LET first == hist[FirstRequest(hist, i)]
            IN  /\ hist[i].out.locale.some
                /\ hist[i].out.locale =
                       IF first.registered.some THEN first.registered ELSE first.dflt
                /\ hist[i].out = first.out

=============================================================================
